---------------------------- MODULE Spec2Model ----------------------------
(***************************************************************************)
(* Session store (src/src/contexts/AuthContext.tsx) and room               *)
(* synchronisation (src/src/pages/RoomPage.tsx) of the learning hub, as    *)
(* state machines.  Execution is single threaded and cooperative: every    *)
(* action below is one run-to-completion step of the JavaScript event      *)
(* loop (an effect run, a callback, the continuation of an await), with    *)
(* the React re-render and the effects that re-render schedules included.  *)
(***************************************************************************)
EXTENDS Naturals, Sequences, FiniteSets

(* ------------------------------ bounds --------------------------------- *)
\* how often the provider's effect may run (StrictMode runs it twice)
MaxEffectRuns == 2
\* calls of one kind (deferred profile fetch, refreshProfile, signOut) in flight
MaxPending == 1
\* messages inserted at the server
MaxMsgs == 2
\* loadRoomData calls in flight
MaxLoads == 2
\* membership changes at the server
MaxMemberEvents == 2
\* member re-fetches in flight
MaxRefetch == 2
\* joinRoom / leaveRoom calls in flight
MaxCalls == 1
\* the same three, where loads and re-fetches do not overlap one another
OneLoad == 1
OneMemberEvent == 1
OneRefetch == 1

(* ------------------------------ values --------------------------------- *)
Users == {"A", "B"}
NoUser == "null"
NoProfile == "null"
NoError == "null"
Runs == 1..MaxEffectRuns
\* the users whose room_members rows are followed
Members == {"A"}
Rooms == {"R1", "R2"}
NoRoom == "null"

(* ===================== AuthContext.tsx : AuthProvider ================== *)
VARIABLES
  user,           \* useState<User | null>            (AuthContext.tsx:37)
  profile,        \* useState<UserProfile | null>, the id it belongs to (:38)
  loading,        \* useState(true)                      (:39)
  error,          \* useState<string | null>, by kind    (:40)
  initialized,    \* useRef(false)                       (:41)
  provMounted,    \* the provider is mounted (main.tsx:13)
  effectLive,     \* the effect has run and has not been cleaned up
  cleanupRun,     \* the run whose cleanup function React holds (0: none)
  runs,           \* how many times the effect has run
  inits,          \* per effect run: the initAuth call and its timeoutId
  listeners,      \* the runs whose onAuthStateChange subscription is active
  pendingFetch,   \* setTimeout(() => fetchProfile(u), 0) not yet completed
  pendingRefresh, \* refreshProfile() awaiting getProfile(u)
  pendingSignOut, \* signOut() awaiting supabaseSignOut()
  session         \* the auth authority's current session user (supabase.auth)

\* what the room page does not touch
authRest == <<profile, loading, error, initialized, provMounted, effectLive,
              cleanupRun, runs, inits, listeners, pendingFetch, pendingRefresh,
              pendingSignOut, session>>

authVars == <<user, profile, loading, error, initialized, provMounted,
              effectLive, cleanupRun, runs, inits, listeners, pendingFetch,
              pendingRefresh, pendingSignOut, session>>

(* RoomPage.tsx : RoomPage.  `user` above is also what useAuth() hands to the
   page (RoomPage.tsx:35). *)
VARIABLES
  pageMounted,    \* a RoomPage instance is mounted on /room/:roomId
  roomId,         \* useParams().roomId                  (RoomPage.tsx:33)
  room,           \* useState<Room | null>, by its id    (:38)
  members,        \* useState<RoomMember[]>: the room it was read for, who (:39)
  messages,       \* useState<Message[]>                 (:40)
  isMember,       \* useState(false)                     (:42)
  pageLoading,    \* useState(true), the page's `loading` (:43)
  channels,       \* the realtime channels that are subscribed: <<topic, room>>
  loads,          \* loadRoomData() calls in flight
  pendingInserts, \* INSERT handlers awaiting the sender's profile
  refetches,      \* membership handlers awaiting getRoomMembers
  calls,          \* joinRoom / leaveRoom calls in flight
  srvMsgs,        \* the messages table: message i (id and created_at) -> room
  srvMembers,     \* the room_members table: room -> users
  memberEvents,   \* membership changes made so far
  sendingMessage, \* useState(false)                    (:44)
  sendCall,       \* the room of the sendMessage call in flight
  toast           \* the last error toast of handleSendMessage

roomVars == <<pageMounted, roomId, room, members, messages, isMember,
              pageLoading, channels, loads, pendingInserts, refetches, calls,
              srvMsgs, srvMembers, memberEvents, sendingMessage, sendCall,
              toast>>

\* what handleSendMessage alone touches
sendVars == <<sendingMessage, sendCall, toast>>

vars == <<authVars, roomVars>>

NoInit == [stage |-> "none", timer |-> "none", cu |-> NoUser]

AuthInit ==
  /\ user = NoUser
  /\ profile = NoProfile
  /\ loading = TRUE
  /\ error = NoError
  /\ initialized = FALSE
  /\ provMounted = TRUE
  /\ effectLive = FALSE
  /\ cleanupRun = 0
  /\ runs = 0
  /\ inits = [k \in Runs |-> NoInit]
  /\ listeners = {}
  /\ pendingFetch = [u \in Users |-> 0]
  /\ pendingRefresh = [u \in Users |-> 0]
  /\ pendingSignOut = 0
  /\ session \in Users \cup {NoUser}

\* A state setter of a component that is no longer mounted changes nothing.
SetStore(u, p, l, e) ==
  IF provMounted
  THEN user' = u /\ profile' = p /\ loading' = l /\ error' = e
  ELSE UNCHANGED <<user, profile, loading, error>>

\* clearTimeout(timeoutId): cancels a timer that has not fired yet.
ClearTimeout(t) == IF t = "armed" THEN "cleared" ELSE t

\* a faulty guard: the single-shot check never sees the ref set
NeverInitialized == FALSE
\* if (initialized.current) return;
AlreadyInitialized == initialized

\* The body of useEffect(() => {...}, []): the guard, then the listener is
\* registered and initAuth() runs up to its first await (the timer is armed
\* and getSession is issued).
EffectRun ==
  /\ provMounted /\ ~effectLive /\ runs < MaxEffectRuns
  /\ runs' = runs + 1
  /\ effectLive' = TRUE
  /\ IF AlreadyInitialized
     THEN /\ cleanupRun' = 0
          /\ UNCHANGED <<initialized, inits, listeners>>
     ELSE /\ initialized' = TRUE
          /\ cleanupRun' = runs + 1
          /\ listeners' = listeners \cup {runs + 1}
          /\ inits' = [inits EXCEPT ![runs + 1] =
                         [stage |-> "session", timer |-> "armed", cu |-> NoUser]]
  /\ UNCHANGED <<user, profile, loading, error, provMounted, pendingFetch,
                 pendingRefresh, pendingSignOut, session>>
  /\ UNCHANGED roomVars

\* The function the effect returned: unsubscribe, clearTimeout.
CleanupOf(k) ==
  IF k = 0
  THEN UNCHANGED <<listeners, inits>>
  ELSE /\ listeners' = listeners \ {k}
       /\ inits' = [inits EXCEPT ![k].timer = ClearTimeout(@)]

\* React runs the cleanup and keeps the provider mounted (StrictMode's
\* simulated unmount); the effect then runs again.
EffectCleanup ==
  /\ provMounted /\ effectLive
  /\ runs < MaxEffectRuns
  /\ effectLive' = FALSE
  /\ cleanupRun' = 0
  /\ CleanupOf(cleanupRun)
  /\ UNCHANGED <<user, profile, loading, error, initialized, provMounted, runs,
                 pendingFetch, pendingRefresh, pendingSignOut, session>>
  /\ UNCHANGED roomVars

\* Final teardown of the provider.
ProviderUnmount ==
  /\ provMounted
  /\ provMounted' = FALSE
  /\ effectLive' = FALSE
  /\ cleanupRun' = 0
  /\ CleanupOf(IF effectLive THEN cleanupRun ELSE 0)
  /\ UNCHANGED <<user, profile, loading, error, initialized, runs,
                 pendingFetch, pendingRefresh, pendingSignOut, session>>
  /\ UNCHANGED roomVars

\* await supabase.auth.getSession() resolves without error, with session s.
GetSessionResolves(k, s) ==
  /\ inits[k].stage = "session"
  /\ s = session
  /\ IF s # NoUser
     THEN /\ inits' = [inits EXCEPT ![k].stage = "profile", ![k].cu = s]
          /\ SetStore(s, profile, loading, error)
     ELSE /\ inits' = [inits EXCEPT ![k].stage = "done",
                                    ![k].timer = ClearTimeout(@)]
          /\ SetStore(s, profile, FALSE, error)
  /\ UNCHANGED <<initialized, provMounted, effectLive, cleanupRun, runs,
                 listeners, pendingFetch, pendingRefresh, pendingSignOut, session>>
  /\ UNCHANGED roomVars

\* a faulty initAuth: the exception of a failed getSession leaves it uncaught
GetSessionFailsUncaught(k) ==
  /\ inits[k].stage = "session"
  /\ inits' = [inits EXCEPT ![k].stage = "failed"]
  /\ UNCHANGED <<user, profile, loading, error>>
  /\ UNCHANGED <<initialized, provMounted, effectLive, cleanupRun, runs,
                 listeners, pendingFetch, pendingRefresh, pendingSignOut, session>>
  /\ UNCHANGED roomVars

\* getSession reports an error (or rejects): the catch block of initAuth.
GetSessionFails(k) ==
  /\ inits[k].stage = "session"
  /\ inits' = [inits EXCEPT ![k].stage = "failed", ![k].timer = ClearTimeout(@)]
  /\ SetStore(NoUser, NoProfile, FALSE, "init")
  /\ UNCHANGED <<initialized, provMounted, effectLive, cleanupRun, runs,
                 listeners, pendingFetch, pendingRefresh, pendingSignOut, session>>
  /\ UNCHANGED roomVars

\* fetchProfile(currentUser) after createOrUpdateProfile settled: the profile it
\* stores and the error it stores (ok: a profile came back; otherwise null came
\* back or the call threw).
FetchedProfile(u, ok) == IF ok THEN u ELSE NoProfile
FetchedError(ok) == IF ok THEN NoError ELSE "profile"

\* await fetchProfile(currentUser) inside initAuth returns; then clearTimeout
\* and setLoading(false).  (The stage an initAuth call ends in tells how it
\* ended: "done", "failed" for a session error, "noprofile" when the profile
\* could not be resolved.)
InitProfileResolves(k, ok) ==
  /\ inits[k].stage = "profile"
  /\ inits' = [inits EXCEPT ![k].stage = IF ok THEN "done" ELSE "noprofile",
                            ![k].timer = ClearTimeout(@)]
  /\ SetStore(user, FetchedProfile(inits[k].cu, ok), FALSE, FetchedError(ok))
  /\ UNCHANGED <<initialized, provMounted, effectLive, cleanupRun, runs,
                 listeners, pendingFetch, pendingRefresh, pendingSignOut, session>>
  /\ UNCHANGED roomVars

\* 30 seconds have passed since initAuth armed its timer: the callback runs if
\* the timer was not cleared.
TimeoutExpires(k) ==
  /\ inits[k].timer \in {"armed", "cleared"}
  /\ IF inits[k].timer = "armed"
     THEN /\ inits' = [inits EXCEPT ![k].timer = "fired"]
          /\ SetStore(user, profile, FALSE, "timeout")
     ELSE /\ inits' = [inits EXCEPT ![k].timer = "lapsed"]
          /\ UNCHANGED <<user, profile, loading, error>>
  /\ UNCHANGED <<initialized, provMounted, effectLive, cleanupRun, runs,
                 listeners, pendingFetch, pendingRefresh, pendingSignOut, session>>
  /\ UNCHANGED roomVars

\* if (initialized.current) setLoading(false), at the end of the listener
ListenerLoading == IF initialized THEN FALSE ELSE loading

\* The events the auth authority emits and the session each one carries: a
\* sign-in starts a session or is repeated for the running one, a refresh
\* carries the running session, a sign-out ends it.
AuthEvents == {"SIGNED_IN", "TOKEN_REFRESHED", "SIGNED_OUT"}
EventSession(ev, s) ==
  CASE ev = "SIGNED_IN" -> s \in Users /\ session \in {NoUser, s}
    [] ev = "TOKEN_REFRESHED" -> s = session /\ s # NoUser
    [] ev = "SIGNED_OUT" -> s = NoUser /\ session # NoUser

\* The onAuthStateChange callback, for event kind ev and session user s.
ListenerCallback(ev, s) ==
  IF s # NoUser /\ ev = "SIGNED_IN"
  THEN /\ pendingFetch[s] < MaxPending
       /\ pendingFetch' = [pendingFetch EXCEPT ![s] = @ + 1]
       /\ SetStore(s, profile, ListenerLoading, error)
  ELSE /\ UNCHANGED pendingFetch
       /\ SetStore(s, IF s = NoUser THEN NoProfile ELSE profile,
                   ListenerLoading, error)

\* The authority's session changes (or is refreshed) and the registered
\* listener, if there is one, is called with the event.
AuthEvent(ev, s) ==
  /\ EventSession(ev, s)
  /\ session' = s
  /\ IF listeners # {}
     THEN ListenerCallback(ev, s)
     ELSE /\ ev # "TOKEN_REFRESHED"
          /\ UNCHANGED <<user, profile, loading, error, pendingFetch>>
  /\ UNCHANGED <<initialized, provMounted, effectLive, cleanupRun, runs, inits,
                 listeners, pendingRefresh, pendingSignOut>>
  /\ UNCHANGED roomVars

\* The deferred fetchProfile(currentUser) of a SIGNED_IN event completes.
DeferredFetchResolves(u, ok) ==
  /\ pendingFetch[u] > 0
  /\ pendingFetch' = [pendingFetch EXCEPT ![u] = @ - 1]
  /\ SetStore(user, FetchedProfile(u, ok), loading, FetchedError(ok))
  /\ UNCHANGED <<initialized, provMounted, effectLive, cleanupRun, runs, inits,
                 listeners, pendingRefresh, pendingSignOut, session>>
  /\ UNCHANGED roomVars

\* refreshProfile() with a user: getProfile(user.id) is issued.
RefreshProfileCall ==
  /\ provMounted /\ user # NoUser
  /\ pendingRefresh[user] < MaxPending
  /\ pendingRefresh' = [pendingRefresh EXCEPT ![user] = @ + 1]
  /\ UNCHANGED <<user, profile, loading, error, initialized, provMounted,
                 effectLive, cleanupRun, runs, inits, listeners, pendingFetch,
                 pendingSignOut, session>>
  /\ UNCHANGED roomVars

\* getProfile(u) settles: a profile, null, or an exception.
RefreshResolves(u, res) ==
  /\ pendingRefresh[u] > 0
  /\ pendingRefresh' = [pendingRefresh EXCEPT ![u] = @ - 1]
  /\ IF res = "throw"
     THEN SetStore(user, profile, loading, "refresh")
     ELSE SetStore(user, IF res = "ok" THEN u ELSE NoProfile, loading, NoError)
  /\ UNCHANGED <<initialized, provMounted, effectLive, cleanupRun, runs, inits,
                 listeners, pendingFetch, pendingSignOut, session>>
  /\ UNCHANGED roomVars

\* signOut() is called: supabaseSignOut() is issued.
SignOutCall ==
  /\ provMounted
  /\ pendingSignOut < MaxPending
  /\ pendingSignOut' = pendingSignOut + 1
  /\ UNCHANGED <<user, profile, loading, error, initialized, provMounted,
                 effectLive, cleanupRun, runs, inits, listeners, pendingFetch,
                 pendingRefresh, session>>
  /\ UNCHANGED roomVars

\* The outcomes of the promise supabaseSignOut() returns.
SignOutOutcomes == {"resolved", "rejected"}

\* await supabaseSignOut() settles.  Resolved: the authority has ended the
\* session (a registered listener has been called with SIGNED_OUT), and
\* setUser(null); setProfile(null) follow the await.  Rejected: the exception
\* leaves signOut at the await.
SignOutSettles(o) ==
  /\ pendingSignOut > 0
  /\ pendingSignOut' = pendingSignOut - 1
  /\ IF o = "resolved"
     THEN /\ session' = NoUser
          /\ SetStore(NoUser, NoProfile,
                      IF listeners # {} THEN ListenerLoading ELSE loading, error)
     ELSE UNCHANGED <<user, profile, loading, error, session>>
  /\ UNCHANGED <<initialized, provMounted, effectLive, cleanupRun, runs, inits,
                 listeners, pendingFetch, pendingRefresh>>
  /\ UNCHANGED roomVars


AuthNext ==
  \/ EffectRun
  \/ EffectCleanup
  \/ ProviderUnmount
  \/ \E k \in Runs, s \in Users \cup {NoUser} : GetSessionResolves(k, s)
  \/ \E k \in Runs : GetSessionFails(k)
  \/ \E k \in Runs, ok \in BOOLEAN : InitProfileResolves(k, ok)
  \/ \E k \in Runs : TimeoutExpires(k)
  \/ \E ev \in AuthEvents, s \in Users \cup {NoUser} : AuthEvent(ev, s)
  \/ \E u \in Users, ok \in BOOLEAN : DeferredFetchResolves(u, ok)
  \/ RefreshProfileCall
  \/ \E u \in Users, res \in {"ok", "null", "throw"} : RefreshResolves(u, res)
  \/ SignOutCall
  \/ \E o \in SignOutOutcomes : SignOutSettles(o)

(* ========================= RoomPage.tsx : RoomPage ===================== *)

NoMembers == [rid |-> NoRoom, who |-> {}]

\* The page state of a component that is not mounted (and of a fresh one).
PageBlank ==
  /\ room = NoRoom
  /\ members = NoMembers
  /\ messages = <<>>
  /\ isMember = FALSE
  /\ pageLoading = TRUE
  /\ channels = {}
  /\ loads = <<>>
  /\ pendingInserts = {}
  /\ refetches = <<>>
  /\ calls = {}
  /\ sendingMessage = FALSE
  /\ sendCall = NoRoom
  /\ toast = "none"

RemoveAt(q, i) == [j \in 1..(Len(q) - 1) |-> IF j < i THEN q[j] ELSE q[j + 1]]

\* The getRoomMembers calls in flight, in the order in which they were issued,
\* once the call at position i has delivered its result: it is gone, and the
\* calls issued before it are marked as superseded by a later call.
Supersede(q, i) ==
  RemoveAt([j \in DOMAIN q |-> IF j < i THEN [q[j] EXCEPT !.old = TRUE] ELSE q[j]], i)

\* getMessages(r): the room's history, oldest first, profiles joined.
MessagesOf(r) ==
  LET F[i \in 0..Len(srvMsgs)] ==
        IF i = 0 THEN <<>>
        ELSE IF srvMsgs[i] = r
             THEN Append(F[i - 1], [id |-> i, profile |-> TRUE])
             ELSE F[i - 1]
  IN F[Len(srvMsgs)]

ChannelsOf(r) == {<<"messages", r>>, <<"members", r>>}

\* a faulty guard: the subscription effect forgets the membership gate
SubscribesUngated(rid, mem) == rid # NoRoom
\* if (!roomId || !isMember) return;   -- TRUE when the effect goes on
Subscribes(rid, mem) == rid # NoRoom /\ mem

\* a faulty effect: the previous run's cleanup is not run before the effect
\* subscribes again
ResubscribeNoCleanup(ch, rid0, mem0, rid1, mem1) ==
  IF rid0 = rid1 /\ mem0 = mem1
  THEN ch
  ELSE IF rid1 # NoRoom /\ mem1 THEN ch \cup ChannelsOf(rid1) ELSE ch

\* The subscription effect on a commit that takes its dependencies
\* [roomId, isMember] from (rid0, mem0) to (rid1, mem1): the previous run's
\* cleanup removes the two channels it created, then the effect runs again.
Resubscribe(ch, rid0, mem0, rid1, mem1) ==
  IF rid0 = rid1 /\ mem0 = mem1
  THEN ch
  ELSE LET cleaned == IF Subscribes(rid0, mem0) THEN ch \ ChannelsOf(rid0) ELSE ch
       IN  IF Subscribes(rid1, mem1) THEN cleaned \cup ChannelsOf(rid1) ELSE cleaned

\* The load effect runs: loadRoomData() up to its await.
LoadStarts(rid, u) == rid # NoRoom /\ u # NoUser
NoSnap == [members |-> NoMembers, messages |-> <<>>, isMember |-> FALSE]
StartLoad(ls, rid, u) ==
  IF LoadStarts(rid, u)
  THEN Append(ls, [rid |-> rid, st |-> "pending", snap |-> NoSnap])
  ELSE ls

\* The page has been opened on /room/r by a signed-in user who has joined R1
\* and not R2: first render, then both effects have run.
RoomInit ==
  /\ pageMounted = TRUE
  /\ roomId \in Rooms
  /\ room = NoRoom
  /\ members = NoMembers
  /\ messages = <<>>
  /\ isMember = FALSE
  /\ pageLoading = TRUE
  /\ channels = Resubscribe({}, NoRoom, FALSE, roomId, FALSE)
  /\ loads = StartLoad(<<>>, roomId, user)
  /\ pendingInserts = {}
  /\ refetches = <<>>
  /\ calls = {}
  /\ sendingMessage = FALSE
  /\ sendCall = NoRoom
  /\ toast = "none"
  /\ srvMsgs = <<>>
  /\ srvMembers = [r \in Rooms |-> IF r = "R1" THEN {"A"} ELSE {}]
  /\ memberEvents = 0

\* The component unmounts: the subscription effect's cleanup runs; what is
\* still in flight can only call the setters of an unmounted component.
Unmounted ==
  /\ pageMounted' = FALSE
  /\ roomId' = NoRoom
  /\ room' = NoRoom
  /\ members' = NoMembers
  /\ messages' = <<>>
  /\ isMember' = FALSE
  /\ pageLoading' = TRUE
  /\ channels' = Resubscribe(channels, roomId, isMember, NoRoom, FALSE)
  /\ loads' = <<>>
  /\ pendingInserts' = {}
  /\ refetches' = <<>>
  /\ calls' = {}
  /\ sendingMessage' = FALSE
  /\ sendCall' = NoRoom
  /\ UNCHANGED toast

\* The user navigates away from the room route.
PageUnmount ==
  /\ pageMounted
  /\ Unmounted
  /\ UNCHANGED <<srvMsgs, srvMembers, memberEvents>>
  /\ UNCHANGED authRest /\ UNCHANGED user

\* The route parameter changes to another room: both effects run again.
NavigateRoom(r) ==
  /\ pageMounted /\ r # roomId
  /\ Len(loads) < MaxLoads
  /\ roomId' = r
  /\ loads' = StartLoad(loads, r, user)
  /\ pageLoading' = (LoadStarts(r, user) \/ pageLoading)
  /\ channels' = Resubscribe(channels, roomId, isMember, r, isMember)
  /\ UNCHANGED <<pageMounted, room, members, messages, isMember,
                 pendingInserts, refetches, calls, srvMsgs, srvMembers,
                 memberEvents>>
  /\ UNCHANGED authRest /\ UNCHANGED user /\ UNCHANGED sendVars

\* What the four reads of Promise.all return when all of them succeed and the
\* room row exists: the state of the tables as the reads saw it.
Snapshot(r, u) ==
  [members |-> [rid |-> r, who |-> srvMembers[r]],
   messages |-> MessagesOf(r),
   isMember |-> u \in srvMembers[r]]

\* The four reads of a loadRoomData call are answered.
LoadReads(i) ==
  /\ i \in DOMAIN loads /\ loads[i].st = "pending"
  /\ loads' = [loads EXCEPT ![i].st = "read",
                            ![i].snap = Snapshot(loads[i].rid, user)]
  /\ UNCHANGED <<pageMounted, roomId, room, members, messages, isMember,
                 pageLoading, channels, pendingInserts, refetches, calls,
                 srvMsgs, srvMembers, memberEvents>>
  /\ UNCHANGED authRest /\ UNCHANGED user /\ UNCHANGED sendVars

\* One of the four reads fails and Promise.all rejects: the catch block
\* (toast), then finally: setLoading(false).
LoadFails(i) ==
  /\ i \in DOMAIN loads /\ loads[i].st = "pending"
  /\ loads' = RemoveAt(loads, i)
  /\ pageLoading' = FALSE
  /\ UNCHANGED <<pageMounted, roomId, room, members, messages, isMember,
                 channels, pendingInserts, refetches, calls, srvMsgs,
                 srvMembers, memberEvents>>
  /\ UNCHANGED authRest /\ UNCHANGED user /\ UNCHANGED sendVars

\* The reads return and getRoom found no row: toast, navigate('/home'), return.
LoadRoomNotFound(i) ==
  /\ i \in DOMAIN loads /\ loads[i].st = "pending"
  /\ Unmounted
  /\ UNCHANGED <<srvMsgs, srvMembers, memberEvents>>
  /\ UNCHANGED authRest /\ UNCHANGED user

\* The continuation of the await in loadRoomData with all four results: the
\* four setters, then finally: setLoading(false); the commit runs the
\* subscription effect if isMember changed.
LoadSettles(i) ==
  /\ i \in DOMAIN loads /\ loads[i].st = "read"
  /\ loads' = RemoveAt(loads, i)
  /\ room' = loads[i].rid
  /\ members' = loads[i].snap.members
  /\ messages' = loads[i].snap.messages
  /\ isMember' = loads[i].snap.isMember
  /\ pageLoading' = FALSE
  /\ channels' = Resubscribe(channels, roomId, isMember,
                             roomId, loads[i].snap.isMember)
  /\ UNCHANGED <<pageMounted, roomId, pendingInserts, refetches, calls,
                 srvMsgs, srvMembers, memberEvents>>
  /\ UNCHANGED authRest /\ UNCHANGED user /\ UNCHANGED sendVars

\* useAuth() hands the page another user object (a sign-in, a sign-out, or
\* the same identity in a new session object): the load effect runs again.
UseAuthUpdate(u) ==
  /\ pageMounted
  /\ Len(loads) < MaxLoads
  /\ user' = u
  /\ loads' = StartLoad(loads, roomId, u)
  /\ pageLoading' = (LoadStarts(roomId, u) \/ pageLoading)
  /\ UNCHANGED <<pageMounted, roomId, room, members, messages, isMember,
                 channels, pendingInserts, refetches, calls, srvMsgs,
                 srvMembers, memberEvents>>
  /\ UNCHANGED authRest /\ UNCHANGED sendVars

\* A row is inserted into messages for room r; a subscribed messages channel
\* of r calls the INSERT handler, which goes on to await the profile lookup.
\* (InsertRow is the insert itself, ServerInsert an insert by anyone.)
InsertRow(r) ==
  /\ Len(srvMsgs) < MaxMsgs
  /\ srvMsgs' = Append(srvMsgs, r)
  /\ pendingInserts' = IF <<"messages", r>> \in channels
                       THEN pendingInserts \cup {Len(srvMsgs) + 1}
                       ELSE pendingInserts

ServerInsert(r) ==
  /\ InsertRow(r)
  /\ UNCHANGED <<pageMounted, roomId, room, members, messages, isMember,
                 pageLoading, channels, loads, refetches, calls, srvMembers,
                 memberEvents>>
  /\ UNCHANGED authRest /\ UNCHANGED user /\ UNCHANGED sendVars

\* a faulty handler: a message whose sender's profile was not found is dropped
AppendKnownSender(prev, id, found) ==
  IF found THEN Append(prev, [id |-> id, profile |-> found]) ELSE prev

\* setMessages(prev => [...prev, {...newMessage, profile: profileData || undefined}])
AppendMessage(prev, id, found) == Append(prev, [id |-> id, profile |-> found])

\* The profile lookup of an INSERT handler settles (found or not).
InsertLookupDone(id, found) ==
  /\ id \in pendingInserts
  /\ pendingInserts' = pendingInserts \ {id}
  /\ messages' = AppendMessage(messages, id, found)
  /\ UNCHANGED <<pageMounted, roomId, room, members, isMember, pageLoading,
                 channels, loads, refetches, calls, srvMsgs, srvMembers,
                 memberEvents>>
  /\ UNCHANGED authRest /\ UNCHANGED user /\ UNCHANGED sendVars

\* A row of room_members of room r is inserted or deleted for user p by
\* someone else; a subscribed members channel of r calls its handler, which
\* issues getRoomMembers(r).
ServerMemberChange(r, p) ==
  /\ memberEvents < MaxMemberEvents
  /\ memberEvents' = memberEvents + 1
  /\ srvMembers' = [srvMembers EXCEPT ![r] =
                      IF p \in @ THEN @ \ {p} ELSE @ \cup {p}]
  /\ IF <<"members", r>> \in channels
     THEN /\ Len(refetches) < MaxRefetch
          /\ refetches' = Append(refetches,
                                 [rid |-> r, st |-> "pending", who |-> {},
                                  old |-> FALSE])
     ELSE UNCHANGED refetches
  /\ UNCHANGED <<pageMounted, roomId, room, members, messages, isMember,
                 pageLoading, channels, loads, pendingInserts, calls, srvMsgs>>
  /\ UNCHANGED authRest /\ UNCHANGED user /\ UNCHANGED sendVars

\* getRoomMembers(r) of a membership handler reads the table.
RefetchReads(i) ==
  /\ i \in DOMAIN refetches /\ refetches[i].st = "pending"
  /\ refetches' = [refetches EXCEPT ![i].st = "read",
                                    ![i].who = srvMembers[refetches[i].rid]]
  /\ UNCHANGED <<pageMounted, roomId, room, members, messages, isMember,
                 pageLoading, channels, loads, pendingInserts, calls, srvMsgs,
                 srvMembers, memberEvents>>
  /\ UNCHANGED authRest /\ UNCHANGED user /\ UNCHANGED sendVars

\* The membership handler's await returns: setMembers(membersData).
RefetchSettles(i) ==
  /\ i \in DOMAIN refetches /\ refetches[i].st = "read"
  /\ refetches' = Supersede(refetches, i)
  /\ members' = [rid |-> refetches[i].rid, who |-> refetches[i].who]
  /\ UNCHANGED <<pageMounted, roomId, room, messages, isMember, pageLoading,
                 channels, loads, pendingInserts, calls, srvMsgs, srvMembers,
                 memberEvents>>
  /\ UNCHANGED authRest /\ UNCHANGED user /\ UNCHANGED sendVars

\* The room view is rendered: neither the spinner nor "Room not found".
ViewShown == pageMounted /\ ~pageLoading /\ room # NoRoom

\* The Join button (shown to a non-member): handleJoinRoom up to its await.
JoinCall ==
  /\ ViewShown /\ ~isMember
  /\ Cardinality(calls) < MaxCalls
  /\ [op |-> "join", rid |-> roomId] \notin calls
  /\ calls' = calls \cup {[op |-> "join", rid |-> roomId]}
  /\ UNCHANGED <<pageMounted, roomId, room, members, messages, isMember,
                 pageLoading, channels, loads, pendingInserts, refetches,
                 srvMsgs, srvMembers, memberEvents>>
  /\ UNCHANGED authRest /\ UNCHANGED user /\ UNCHANGED sendVars

\* The Leave button (shown to a member): handleLeaveRoom up to its await.
LeaveCall ==
  /\ ViewShown /\ isMember
  /\ Cardinality(calls) < MaxCalls
  /\ [op |-> "leave", rid |-> roomId] \notin calls
  /\ calls' = calls \cup {[op |-> "leave", rid |-> roomId]}
  /\ UNCHANGED <<pageMounted, roomId, room, members, messages, isMember,
                 pageLoading, channels, loads, pendingInserts, refetches,
                 srvMsgs, srvMembers, memberEvents>>
  /\ UNCHANGED authRest /\ UNCHANGED user /\ UNCHANGED sendVars

\* The membership handler of a subscribed members channel of r is called for
\* a change the page's own call made.
OwnMemberEvent(r) ==
  IF <<"members", r>> \in channels /\ Len(refetches) < OneRefetch
  THEN Append(refetches, [rid |-> r, st |-> "pending", who |-> {},
                          old |-> FALSE])
  ELSE refetches

\* await joinRoom(rid) returns: setIsMember(true), toast; or the catch.
JoinSettles(c, ok) ==
  /\ c \in calls /\ c.op = "join"
  /\ calls' = calls \ {c}
  /\ IF ok /\ user # NoUser
     THEN /\ srvMembers' = [srvMembers EXCEPT ![c.rid] = @ \cup {user}]
          /\ refetches' = OwnMemberEvent(c.rid)
          /\ isMember' = TRUE
          /\ channels' = Resubscribe(channels, roomId, isMember, roomId, TRUE)
     ELSE UNCHANGED <<srvMembers, refetches, isMember, channels>>
  /\ UNCHANGED <<pageMounted, roomId, room, members, messages, pageLoading,
                 loads, pendingInserts, srvMsgs, memberEvents>>
  /\ UNCHANGED authRest /\ UNCHANGED user /\ UNCHANGED sendVars

\* await leaveRoom(rid) returns: toast, navigate('/home'); or the catch.
LeaveSettles(c, ok) ==
  /\ c \in calls /\ c.op = "leave"
  /\ IF ok /\ user # NoUser
     THEN /\ srvMembers' = [srvMembers EXCEPT ![c.rid] = @ \ {user}]
          /\ Unmounted
     ELSE /\ calls' = calls \ {c}
          /\ UNCHANGED <<pageMounted, roomId, room, members, messages,
                         isMember, pageLoading, channels, loads,
                         pendingInserts, refetches, srvMembers>>
          /\ UNCHANGED sendVars
  /\ UNCHANGED <<srvMsgs, memberEvents>>
  /\ UNCHANGED authRest /\ UNCHANGED user

\* The Send button of the chat panel with a non-blank draft: handleSendMessage
\* up to its await.
SendCall ==
  /\ ViewShown /\ isMember /\ roomId # NoRoom
  /\ ~sendingMessage /\ sendCall = NoRoom
  /\ sendingMessage' = TRUE
  /\ sendCall' = roomId
  /\ UNCHANGED <<pageMounted, roomId, room, members, messages, isMember,
                 pageLoading, channels, loads, pendingInserts, refetches,
                 calls, srvMsgs, srvMembers, memberEvents, toast>>
  /\ UNCHANGED authRest /\ UNCHANGED user

\* What await sendMessage(roomId, newMessage) gives: the stored message, null,
\* or an exception.
SendResults == {"message", "null", "throw"}

\* a faulty handler: the finally block is missing
SendSettlesNoFinally(res) ==
  /\ pageMounted /\ sendCall # NoRoom
  /\ sendCall' = NoRoom
  /\ IF res = "message"
     THEN InsertRow(sendCall) /\ UNCHANGED toast /\ sendingMessage' = FALSE
     ELSE /\ toast' = "Failed to send message."
          /\ UNCHANGED <<srvMsgs, pendingInserts, sendingMessage>>
  /\ UNCHANGED <<pageMounted, roomId, room, members, messages, isMember,
                 pageLoading, channels, loads, refetches, calls, srvMembers,
                 memberEvents>>
  /\ UNCHANGED authRest /\ UNCHANGED user

\* The await of handleSendMessage settles: a stored message (the row is in the
\* table; the draft is cleared), or the error toast; finally
\* setSendingMessage(false).
SendSettles(res) ==
  /\ pageMounted /\ sendCall # NoRoom
  /\ sendCall' = NoRoom
  /\ sendingMessage' = FALSE
  /\ IF res = "message"
     THEN InsertRow(sendCall) /\ UNCHANGED toast
     ELSE /\ toast' = "Failed to send message."
          /\ UNCHANGED <<srvMsgs, pendingInserts>>
  /\ UNCHANGED <<pageMounted, roomId, room, members, messages, isMember,
                 pageLoading, channels, loads, refetches, calls, srvMembers,
                 memberEvents>>
  /\ UNCHANGED authRest /\ UNCHANGED user

\* The room page with its per-action calls: sending, joining, and the loads
\* and live inserts they interleave with.
SendNext ==
  \/ PageUnmount
  \/ \E r \in Rooms : Len(loads) < OneLoad /\ NavigateRoom(r)
  \/ \E i \in 1..MaxLoads : LoadReads(i)
  \/ \E i \in 1..MaxLoads : LoadFails(i)
  \/ \E i \in 1..MaxLoads : LoadSettles(i)
  \/ \E id \in 1..MaxMsgs, found \in BOOLEAN : InsertLookupDone(id, found)
  \/ JoinCall
  \/ \E c \in calls, ok \in BOOLEAN : JoinSettles(c, ok)
  \/ SendCall
  \/ \E res \in SendResults : SendSettles(res)

\* The room page with overlapping loads and overlapping member re-fetches:
\* room changes while a load is in flight, membership events while a re-fetch
\* is in flight.
RaceNext ==
  \/ PageUnmount
  \/ \E r \in Rooms : NavigateRoom(r)
  \/ \E i \in 1..MaxLoads : LoadReads(i)
  \/ \E i \in 1..MaxLoads : LoadSettles(i)
  \/ \E r \in Rooms, p \in Members : ServerMemberChange(r, p)
  \/ \E i \in 1..MaxRefetch : RefetchReads(i)
  \/ \E i \in 1..MaxRefetch : RefetchSettles(i)

RoomNext ==
  \/ PageUnmount
  \/ \E r \in Rooms : Len(loads) < OneLoad /\ NavigateRoom(r)
  \/ \E i \in 1..MaxLoads : LoadReads(i)
  \/ \E i \in 1..MaxLoads : LoadFails(i)
  \/ \E i \in 1..MaxLoads : LoadRoomNotFound(i)
  \/ \E i \in 1..MaxLoads : LoadSettles(i)
  \/ \E u \in Members \cup {NoUser} : Len(loads) < OneLoad /\ UseAuthUpdate(u)
  \/ \E r \in Rooms : ServerInsert(r)
  \/ \E id \in 1..MaxMsgs, found \in BOOLEAN : InsertLookupDone(id, found)
  \/ \E r \in Rooms, p \in Members :
       /\ memberEvents < OneMemberEvent
       /\ <<"members", r>> \in channels => Len(refetches) < OneRefetch
       /\ ServerMemberChange(r, p)
  \/ \E i \in 1..MaxRefetch : RefetchReads(i)
  \/ \E i \in 1..MaxRefetch : RefetchSettles(i)
  \/ JoinCall
  \/ LeaveCall
  \/ \E c \in calls, ok \in BOOLEAN : JoinSettles(c, ok)
  \/ \E c \in calls, ok \in BOOLEAN : LeaveSettles(c, ok)

\* The session store on its own: no room page is mounted.
RoomIdle ==
  /\ pageMounted = FALSE /\ roomId = NoRoom /\ PageBlank
  /\ srvMsgs = <<>> /\ srvMembers = [r \in Rooms |-> {}] /\ memberEvents = 0
SessionStoreInit == AuthInit /\ RoomIdle
SpecAuth == SessionStoreInit /\ [][AuthNext]_vars

\* The room page under an initialised session store: the store's `user` is
\* what the page sees, and it changes through UseAuthUpdate.
AuthSettled ==
  /\ user \in Users /\ profile = user /\ session = user
  /\ loading = FALSE /\ error = NoError
  /\ initialized = TRUE /\ provMounted = TRUE /\ effectLive = TRUE
  /\ cleanupRun = 1 /\ runs = 1
  /\ inits = [k \in Runs |-> IF k = 1
                              THEN [stage |-> "done", timer |-> "cleared", cu |-> user]
                              ELSE NoInit]
  /\ listeners = {1}
  /\ pendingFetch = [u \in Users |-> 0]
  /\ pendingRefresh = [u \in Users |-> 0]
  /\ pendingSignOut = 0
RoomPageInit == AuthSettled /\ user = "A" /\ RoomInit
SpecRoom == RoomPageInit /\ [][RoomNext]_vars
SpecSend == RoomPageInit /\ [][SendNext]_vars
SpecRace == RoomPageInit /\ [][RaceNext]_vars

(* ---------------------------- claims: room page ------------------------ *)
\* the message list is on screen: the chat panel of a member
MessagesVisible == ViewShown /\ isMember

\* C1: the visible message list holds at most one entry per message id.
C1_NoDuplicateIds ==
  MessagesVisible =>
    \A i, j \in DOMAIN messages : i # j => messages[i].id # messages[j].id

\* C2: messages with distinct ids are listed in ascending timestamp order
\* (a message's id is also its created_at), whatever the order in which the
\* insert events arrive and their profile lookups complete.
C2_TimestampOrder ==
  MessagesVisible =>
    \A i, j \in DOMAIN messages :
      (i < j /\ messages[i].id # messages[j].id) => messages[i].id < messages[j].id

\* C3: no channel is subscribed while isMember is false (or the page is gone);
\* in particular the state a step leaves with isMember false has no channel.
C3_GateInvariant == channels # {} => (pageMounted /\ isMember)
\* C3 witness: the bridge was open (one of its INSERT handlers is still
\* awaiting its lookup), isMember has since become false on the mounted page,
\* and no channel is left.
C3_Witness ==
  /\ pageMounted /\ room # NoRoom /\ ~isMember
  /\ pendingInserts # {}
  /\ channels = {}

\* C4: the step that switches the view from a room the user has joined to a
\* room the user has not joined leaves no channel scoped to the new room.
C4_NoBridgeForUnjoinedRoom ==
  [][(/\ pageMounted /\ pageMounted' /\ roomId' # roomId
      /\ user \in srvMembers[roomId]
      /\ user \notin srvMembers[roomId'])
     => channels' \cap ChannelsOf(roomId') = {}]_vars

\* C5: once the handler of a membership-change event has finished and the
\* current user is no longer a member of the open room (neither in the table
\* nor in the re-fetched list), isMember is false and the bridge is closed.
C5_MembershipLossClosesBridge ==
  [][(/\ pageMounted' /\ Len(refetches') < Len(refetches)
      /\ user' # NoUser
      /\ members'.rid = roomId'
      /\ user' \notin members'.who
      /\ user' \notin srvMembers'[roomId'])
     => (~isMember' /\ channels' = {})]_vars

\* C10: the step in which a loadRoomData call ends because a read failed
\* changes none of room, members, messages, isMember, and, when the load was
\* for the room being opened (the route's room, of which no snapshot is held),
\* leaves no room view on screen.
C10_LoadAllOrNothing ==
  [][\A i \in DOMAIN loads :
        (loads[i].st = "pending" /\ pageMounted' /\ loads' = RemoveAt(loads, i))
        => /\ room' = room /\ members' = members
           /\ messages' = messages /\ isMember' = isMember
           /\ (loads[i].rid = roomId' /\ room # roomId') => ~ViewShown']_vars

\* C11: the step in which the page's session identity changes (to no user or
\* to another user) while channels are subscribed leaves none of them
\* subscribed.
C11_IdentityChangeClosesBridge ==
  [][(pageMounted /\ channels # {} /\ user' # user) => channels' = {}]_vars

\* C12: the subscribed channels are either none or exactly the messages and
\* members channels of the current roomId; channels of a room the view has
\* left are never subscribed together with those of the new room.
C12_OneBridgeForCurrentRoom ==
  /\ channels # {} => (pageMounted /\ roomId # NoRoom /\ channels = ChannelsOf(roomId))
  /\ Cardinality(channels) <= 2
\* C12 witness: the view has changed from R1, whose bridge was open, to R2,
\* and the only channels subscribed are R2's.
C12_Witness ==
  /\ pageMounted /\ roomId = "R2" /\ room = "R1"
  /\ channels = ChannelsOf("R2")

\* C13: the step in which leaveRoom(R) returns successfully leaves no channel
\* subscribed and no INSERT handler in flight; from then on (the page is gone)
\* a message inserted for R starts no handler and the message list does not
\* change.
C13_LeaveClosesBridge ==
  [][/\ \A c \in calls :
          (c.op = "leave" /\ c \notin calls' /\ user \in srvMembers[c.rid]
             /\ user \notin srvMembers'[c.rid])
          => (channels' = {} /\ pendingInserts' = {} /\ ~pageMounted')
     /\ (~pageMounted /\ Len(srvMsgs') > Len(srvMsgs))
          => (messages' = messages /\ pendingInserts' = {})]_vars
\* C13 witness: A has left R1 through leaveRoom (no one else changed the
\* membership rows), and messages of R1 are in the table while the list is
\* untouched.
C13_Witness ==
  /\ ~pageMounted /\ memberEvents = 0 /\ "A" \notin srvMembers["R1"]
  /\ Len(srvMsgs) = MaxMsgs /\ \A i \in DOMAIN srvMsgs : srvMsgs[i] = "R1"
  /\ messages = <<>> /\ channels = {}

\* the ids of the messages in a list
IdsOf(ms) == {ms[i].id : i \in DOMAIN ms}

\* C14: the step in which joinRoom(R) returns successfully for a non-member
\* leaves isMember true and R's two channels subscribed; a message inserted for
\* a room whose messages channel is subscribed starts an INSERT handler, and
\* the step in which that handler finishes leaves the message in the list.
C14_JoinOpensBridge ==
  [][/\ \A c \in calls :
          (c.op = "join" /\ c \notin calls' /\ pageMounted'
             /\ user \notin srvMembers[c.rid] /\ user \in srvMembers'[c.rid])
          => (isMember' /\ ChannelsOf(c.rid) \subseteq channels')
     /\ (Len(srvMsgs') > Len(srvMsgs)
          /\ <<"messages", srvMsgs'[Len(srvMsgs')]>> \in channels)
          => Len(srvMsgs') \in pendingInserts'
     /\ \A id \in pendingInserts :
          (id \notin pendingInserts' /\ pageMounted') => id \in IdsOf(messages')]_vars

\* C15: a step that leaves the subscribed channels as they were removes no
\* message id from the list.
C15_MessageIdsNeverShrink ==
  [][(pageMounted /\ channels # {} /\ channels' = channels)
        => IdsOf(messages) \subseteq IdsOf(messages')]_vars

C21_InsertAlwaysAppended ==
  [][/\ \A r \in Rooms :
          (Len(srvMsgs') = Len(srvMsgs) + 1 /\ srvMsgs'[Len(srvMsgs')] = r
             /\ <<"messages", r>> \in channels /\ pageMounted')
          => Len(srvMsgs') \in pendingInserts'
     /\ \A id \in pendingInserts :
          (id \notin pendingInserts' /\ pageMounted')
          => /\ Len(messages') = Len(messages) + 1
             /\ SubSeq(messages', 1, Len(messages)) = messages
             /\ messages'[Len(messages')].id = id]_vars
\* C21 witness: a message whose sender's profile was not found is in the list
\* of the open room.
C21_Witness ==
  /\ pageMounted /\ channels # {} /\ pendingInserts = {}
  /\ \E i \in DOMAIN messages : messages[i].profile = FALSE

\* C24: the step in which an INSERT handler or a membership handler of a room
\* whose channels are no longer subscribed finishes, while the view is on
\* another room, changes neither the message list nor the member list.
C24_ClosedBridgeHandlersInert ==
  [][/\ \A id \in pendingInserts :
          (id \notin pendingInserts' /\ pageMounted'
             /\ srvMsgs[id] # roomId /\ <<"messages", srvMsgs[id]>> \notin channels)
          => messages' = messages
     /\ \A i \in DOMAIN refetches :
          (refetches' = Supersede(refetches, i) /\ pageMounted'
             /\ refetches[i].rid # roomId
             /\ <<"members", refetches[i].rid>> \notin channels)
          => members' = members]_vars

\* C22: a member re-fetch that was issued before one that has already
\* delivered its result does not change the member list when it completes, so
\* that once all re-fetches have completed the list is the result of the one
\* issued last.
C22_NewestRefetchWins ==
  [][\A i \in DOMAIN refetches :
        (refetches[i].st = "read" /\ refetches[i].old
           /\ refetches' = Supersede(refetches, i) /\ pageMounted'
           /\ members.rid = refetches[i].rid)
        => members'.who = members.who]_vars

\* C23: the step in which the last loadRoomData call in flight completes with
\* its four results leaves room and members belonging to the current roomId.
C23_LastLoadIsCurrentRoom ==
  [][\A i \in DOMAIN loads :
        (loads[i].st = "read" /\ loads' = RemoveAt(loads, i) /\ loads' = <<>>
           /\ pageMounted')
        => (room' = roomId' /\ members'.rid = roomId')]_vars

(* ------------------------- claims: session store ----------------------- *)
\* the effect runs that issued getSession, and those whose initAuth is in flight
GetSessionCalls == {k \in Runs : inits[k].stage # "none"}
InitsInFlight == {k \in Runs : inits[k].stage \in {"session", "profile"}}

\* C6: over any sequence of runs and cleanups of the initialization effect,
\* getSession is issued at most once and at most one initAuth is in flight.
C6_InitOnce ==
  /\ Cardinality(GetSessionCalls) <= 1
  /\ Cardinality(InitsInFlight) <= 1
\* C6 witness: the effect has run, been cleaned up and run again, and one
\* getSession call was issued.
C6_Witness ==
  /\ runs >= 2 /\ effectLive /\ provMounted
  /\ Cardinality(GetSessionCalls) = 1

\* 30 seconds have passed since run k armed its timer
Expired(k) == inits[k].timer \in {"fired", "lapsed"}

\* C7: while the session fetch of an initialization has not resolved, loading
\* stays true until the 30 second timer expires, and the step at which it
\* expires leaves error set and loading false.
C7_TimeoutSetsError ==
  [][\A k \in Runs :
        (provMounted' /\ inits'[k].stage = "session") =>
           IF Expired(k)'
           THEN ~Expired(k) => (error' # NoError /\ loading' = FALSE)
           ELSE loading' = TRUE]_vars

\* C8: profile is non-null only if user is non-null and the profile is that
\* user's.
C8_ProfileOfUser == profile # NoProfile => profile = user

\* C9: when a signOut() call finishes, whatever the outcome of the external
\* sign-out, user and profile are null.
C9_SignOutClears ==
  [][(provMounted /\ pendingSignOut' < pendingSignOut) =>
        (user' = NoUser /\ profile' = NoProfile)]_vars

\* C17: the step in which the initial session fetch fails leaves user null,
\* profile null, error set, loading false and the init timer not pending; the
\* step in which the profile resolution of the init sequence fails leaves
\* profile null, error set and loading false.
C17_InitFailureAbsorbed ==
  [][\A k \in Runs :
        provMounted' =>
          /\ (inits[k].stage = "session" /\ inits'[k].stage = "failed")
               => /\ user' = NoUser /\ profile' = NoProfile
                  /\ error' # NoError /\ loading' = FALSE
                  /\ inits'[k].timer # "armed"
          /\ (inits[k].stage = "profile" /\ inits'[k].stage = "noprofile")
               => /\ profile' = NoProfile
                  /\ error' # NoError /\ loading' = FALSE
                  /\ inits'[k].timer # "armed"]_vars
\* C17 witness: the session fetch of the mounted provider has failed and its
\* timer was cancelled.
C17_Witness ==
  /\ provMounted
  /\ \E k \in Runs : inits[k].stage = "failed" /\ inits[k].timer = "cleared"
  /\ user = NoUser /\ profile = NoProfile /\ error = "init" /\ loading = FALSE

\* C18: once the init timer of a run has fired, the step in which that run's
\* pending session fetch or profile resolution completes changes none of
\* user, profile, error, loading.
C18_TimeoutAbandonsInit ==
  [][\A k \in Runs :
        (inits[k].timer = "fired" /\ inits[k].stage \in {"session", "profile"}
           /\ inits'[k].stage # inits[k].stage)
        => (user' = user /\ profile' = profile /\ error' = error
            /\ loading' = loading)]_vars

\* C19: while the initialization sequence is still in flight (and has not
\* timed out), a step that is not a step of that sequence -- a listener
\* event -- does not turn loading from true to false.
C19_ListenerWaitsForInit ==
  [][(/\ provMounted /\ loading /\ InitsInFlight # {}
      /\ \A k \in Runs : inits[k].timer # "fired"
      /\ inits' = inits)
     => loading' = TRUE]_vars

\* C20: a mounted provider whose effect has run has exactly one active
\* listener; a provider that was torn down has none and no pending init timer.
C20_OneListenerWhileMounted ==
  /\ (provMounted /\ effectLive) => Cardinality(listeners) = 1
  /\ ~provMounted => (listeners = {} /\ \A k \in Runs : inits[k].timer # "armed")

=============================================================================
